---- MODULE Spec2Model ----
(***************************************************************************)
(* A model of the rust-state-machine runtime: the System pallet (block     *)
(* number and nonces), the Balances pallet, the Proof-of-Existence pallet  *)
(* and the block-execution loop of the Runtime that composes them.         *)
(*                                                                         *)
(* A BTreeMap is a function whose DOMAIN is the set of stored keys.  The   *)
(* numeric types (Balance = u128, BlockNumber = u32, Nonce = u32) keep a   *)
(* finite width: their largest values are MaxBalance, MaxBlockNumber and   *)
(* MaxNonce.                                                               *)
(***************************************************************************)
EXTENDS Integers, Sequences, FiniteSets, TLC

\* ------------------------------------------------------------------ bounds

\* Largest value of types::Balance (u128::MAX, scaled down).
MaxBalance == 2
\* Largest value of types::BlockNumber (u32::MAX, scaled down).
MaxBlockNumber == 2
\* Largest value of types::Nonce (u32::MAX, scaled down).
MaxNonce == 2
\* Longest extrinsic list of a block.
MaxExtrinsics == 2
\* The widths that hold the run of main: a balance of 100, and the nonce of
\* an account that sends every extrinsic of every block.
MainMaxBalance == 100
MainMaxNonce == MaxExtrinsics * MaxBlockNumber

\* types::AccountId values and types::Content values in use.
Accounts == {"alice", "bob", "charlie"}
Contents == {"x", "y"}
\* The callers, recipients and contents that blocks are assembled from.
BlockAccounts == {"alice", "bob"}
BlockContents == {"x"}

BalanceT == 0..MaxBalance
BlockNumberT == 0..MaxBlockNumber
NonceT == 0..MaxNonce

\* ------------------------------------------------------------------- state

VARIABLES
    block_number,     \* system::Pallet.block_number
    nonce,            \* system::Pallet.nonce : BTreeMap<AccountId, Nonce>
    balances,         \* balances::Pallet.balances : BTreeMap<AccountId, Balance>
    claims,           \* proof_of_existence::Pallet.claims : BTreeMap<Content, AccountId>
    overflow_checks,  \* the build profile: TRUE when `+` panics on overflow, FALSE when it wraps
    config,           \* the largest values of the Config types Balance, BlockNumber and Nonce
    last,             \* the operation called, its arguments and what it returned
    accepted_blocks   \* history: how many blocks execute_block has accepted

vars == <<block_number, nonce, balances, claims, overflow_checks, config, last,
          accepted_blocks>>

\* ------------------------------------------------------------ BTreeMap

EmptyMap == [k \in {} |-> 0]

\* BTreeMap::insert
Insert(m, k, v) == [x \in (DOMAIN m) \cup {k} |-> IF x = k THEN v ELSE m[x]]

\* BTreeMap::remove
Remove(m, k) == [x \in (DOMAIN m) \ {k} |-> m[x]]

\* ----------------------------------------------------------- arithmetic

\* CheckedSub::checked_sub on an unsigned type: None (-1 here) on underflow.
None == -1
checked_sub(a, b) == IF a - b < 0 THEN None ELSE a - b

\* CheckedAdd::checked_add on a type whose largest value is max.
checked_add(a, b, max) == IF a + b > max THEN None ELSE a + b

\* `a + b` and `a += b` on an unsigned integer type whose largest value is
\* max.  On overflow the build decides: a panic with overflow checks (the
\* debug profile), a wrap around without them (the release profile).
unchecked_add(a, b, max) ==
    IF a + b > max
    THEN IF overflow_checks
         THEN [panic |-> TRUE, value |-> a]
         ELSE [panic |-> FALSE, value |-> (a + b) % (max + 1)]
    ELSE [panic |-> FALSE, value |-> a + b]

\* --------------------------------------------------------- system pallet

\* new starting the chain at block one.
system_new_at_block_one == [block_number |-> 1, nonce |-> EmptyMap]

\* system::Pallet::new
system_new == [block_number |-> 0, nonce |-> EmptyMap]

\* block_number reading one too many.
get_block_number_off_by_one(sys) == sys.block_number + 1

\* system::Pallet::block_number
get_block_number(sys) == sys.block_number

\* inc_block_number adding two.
inc_block_number_by_two(sys) ==
    LET r == unchecked_add(sys.block_number, 2, config.max_block_number)
    IN [panic |-> r.panic, system |-> [sys EXCEPT !.block_number = r.value]]

\* inc_block_number clearing the nonces as it advances the block number.
inc_block_number_clearing_nonces(sys) ==
    LET r == unchecked_add(sys.block_number, 1, config.max_block_number)
    IN [panic |-> r.panic,
        system |-> [block_number |-> r.value, nonce |-> EmptyMap]]

\* system::Pallet::inc_block_number
inc_block_number(sys) ==
    LET r == unchecked_add(sys.block_number, 1, config.max_block_number)
    IN [panic |-> r.panic, system |-> [sys EXCEPT !.block_number = r.value]]

\* inc_nonce storing one whatever the stored nonce is.
inc_nonce_always_one(sys, who) ==
    [panic |-> FALSE, system |-> [sys EXCEPT !.nonce = Insert(sys.nonce, who, 1)]]

\* system::Pallet::inc_nonce
inc_nonce(sys, who) ==
    IF who \in DOMAIN sys.nonce
    THEN LET r == unchecked_add(sys.nonce[who], 1, config.max_nonce)
         IN [panic |-> r.panic,
             system |-> IF r.panic THEN sys
                        ELSE [sys EXCEPT !.nonce = Insert(sys.nonce, who, r.value)]]
    ELSE [panic |-> FALSE, system |-> [sys EXCEPT !.nonce = Insert(sys.nonce, who, 1)]]

\* ------------------------------------------------------- balances pallet

\* balances::Pallet::new
balances_new == EmptyMap

\* set_balance adding the amount to the stored balance instead of replacing it.
set_balance_additive(bal, who, amount) ==
    Insert(bal, who, (IF who \in DOMAIN bal THEN bal[who] ELSE 0) + amount)

\* balances::Pallet::set_balance
set_balance(bal, who, amount) == Insert(bal, who, amount)

\* balances::Pallet::balance
balance(bal, who) == IF who \in DOMAIN bal THEN bal[who] ELSE 0

\* transfer with the funds check lost: the caller's new balance saturates at zero.
transfer_saturating_sub(bal, caller, to, amount) ==
    LET caller_balance == balance(bal, caller)
        to_balance == balance(bal, to)
        new_caller_balance == IF amount > caller_balance THEN 0 ELSE caller_balance - amount
        new_to_balance == checked_add(to_balance, amount, config.max_balance)
    IN IF new_to_balance = None
       THEN [res |-> "Overflow", balances |-> bal]
       ELSE [res |-> "Ok",
             balances |-> set_balance(set_balance(bal, caller, new_caller_balance),
                                      to, new_to_balance)]

\* transfer with the recipient's balance added unchecked: it wraps around.
transfer_wrapping_add(bal, caller, to, amount) ==
    LET caller_balance == balance(bal, caller)
        to_balance == balance(bal, to)
        new_caller_balance == checked_sub(caller_balance, amount)
        new_to_balance == (to_balance + amount) % (config.max_balance + 1)
    IN IF new_caller_balance = None
       THEN [res |-> "Not enough funds", balances |-> bal]
       ELSE [res |-> "Ok",
             balances |-> set_balance(set_balance(bal, caller, new_caller_balance),
                                      to, new_to_balance)]

\* transfer debiting the caller without crediting the recipient.
transfer_without_credit(bal, caller, to, amount) ==
    LET caller_balance == balance(bal, caller)
        to_balance == balance(bal, to)
        new_caller_balance == checked_sub(caller_balance, amount)
        new_to_balance == checked_add(to_balance, amount, config.max_balance)
    IN IF new_caller_balance = None
       THEN [res |-> "Not enough funds", balances |-> bal]
       ELSE IF new_to_balance = None
       THEN [res |-> "Overflow", balances |-> bal]
       ELSE [res |-> "Ok", balances |-> set_balance(bal, caller, new_caller_balance)]

\* transfer writing the caller's new balance before the overflow check.
transfer_partial_write(bal, caller, to, amount) ==
    LET caller_balance == balance(bal, caller)
        to_balance == balance(bal, to)
        new_caller_balance == checked_sub(caller_balance, amount)
        new_to_balance == checked_add(to_balance, amount, config.max_balance)
    IN IF new_caller_balance = None
       THEN [res |-> "Not enough funds", balances |-> bal]
       ELSE IF new_to_balance = None
       THEN [res |-> "Overflow", balances |-> set_balance(bal, caller, new_caller_balance)]
       ELSE [res |-> "Ok",
             balances |-> set_balance(set_balance(bal, caller, new_caller_balance),
                                      to, new_to_balance)]

\* transfer taking the amount from the recipient and giving it to the caller.
transfer_from_recipient(bal, caller, to, amount) ==
    LET caller_balance == balance(bal, caller)
        to_balance == balance(bal, to)
        new_to_balance == checked_sub(to_balance, amount)
        new_caller_balance == checked_add(caller_balance, amount, config.max_balance)
    IN IF new_to_balance = None
       THEN [res |-> "Not enough funds", balances |-> bal]
       ELSE IF new_caller_balance = None
       THEN [res |-> "Overflow", balances |-> bal]
       ELSE [res |-> "Ok",
             balances |-> set_balance(set_balance(bal, caller, new_caller_balance),
                                      to, new_to_balance)]

\* balances::Pallet::transfer
transfer(bal, caller, to, amount) ==
    LET caller_balance == balance(bal, caller)
        to_balance == balance(bal, to)
        new_caller_balance == checked_sub(caller_balance, amount)
        new_to_balance == checked_add(to_balance, amount, config.max_balance)
    IN IF new_caller_balance = None
       THEN [res |-> "Not enough funds", balances |-> bal]
       ELSE IF new_to_balance = None
       THEN [res |-> "Overflow", balances |-> bal]
       ELSE [res |-> "Ok",
             balances |-> set_balance(set_balance(bal, caller, new_caller_balance),
                                      to, new_to_balance)]

\* --------------------------------------------- proof-of-existence pallet

\* proof_of_existence::Pallet::new
poe_new == EmptyMap

\* proof_of_existence::Pallet::get_claim: the owner, or "none".
get_claim(cl, claim) == IF claim \in DOMAIN cl THEN cl[claim] ELSE "none"

\* create_claim without the contains_key check: the claim is overwritten.
create_claim_overwrite(cl, caller, claim) ==
    [res |-> "Ok", claims |-> Insert(cl, claim, caller)]

\* proof_of_existence::Pallet::create_claim
create_claim(cl, caller, claim) ==
    IF claim \in DOMAIN cl
    THEN [res |-> "this content is already claimed", claims |-> cl]
    ELSE [res |-> "Ok", claims |-> Insert(cl, claim, caller)]

\* revoke_claim without the owner check: any caller removes an existing claim.
revoke_claim_any_caller(cl, caller, claim) ==
    IF get_claim(cl, claim) = "none"
    THEN [res |-> "Claim not existing", claims |-> cl]
    ELSE [res |-> "Ok", claims |-> Remove(cl, claim)]

\* revoke_claim emptying the claims store.
revoke_claim_clearing_store(cl, caller, claim) ==
    IF claim \notin DOMAIN cl
    THEN [res |-> "Claim not existing", claims |-> cl]
    ELSE IF cl[claim] # caller
    THEN [res |-> "Cannot revoke claim that is not owned by caller", claims |-> cl]
    ELSE [res |-> "Ok", claims |-> EmptyMap]

\* proof_of_existence::Pallet::revoke_claim
revoke_claim(cl, caller, claim) ==
    LET current_owner == get_claim(cl, claim)
    IN IF current_owner = "none"
       THEN [res |-> "Claim not existing", claims |-> cl]
       ELSE IF current_owner # caller
       THEN [res |-> "Cannot revoke claim that is not owned by caller", claims |-> cl]
       ELSE [res |-> "Ok", claims |-> Remove(cl, claim)]

\* <proof_of_existence::Pallet as Dispatch>::dispatch
poe_dispatch(cl, caller, call) ==
    IF call.name = "create_claim"
    THEN create_claim(cl, caller, call.claim)
    ELSE revoke_claim(cl, caller, call.claim)

\* ---------------------------------------------------------------- runtime

\* The calls an extrinsic can carry (RuntimeCall): one variant per pallet,
\* wrapping that pallet's own call.
TransferCall(to, amount) ==
    [pallet |-> "balances", name |-> "transfer", to |-> to, amount |-> amount]
CreateClaimCall(claim) ==
    [pallet |-> "proof_of_existence", name |-> "create_claim", claim |-> claim]
RevokeClaimCall(claim) ==
    [pallet |-> "proof_of_existence", name |-> "revoke_claim", claim |-> claim]

\* <balances::Pallet as Dispatch>::dispatch: forwards to transfer with the
\* caller the execution loop supplies.
balances_dispatch(bal, caller, call) == transfer(bal, caller, call.to, call.amount)

\* <Runtime as Dispatch>::dispatch: forwards the call to the pallet that
\* owns it, with the same caller; the error is passed on unchanged.
runtime_dispatch(rt, caller, call) ==
    IF call.pallet = "balances"
    THEN LET r == balances_dispatch(rt.balances, caller, call)
         IN [res |-> r.res, rt |-> [rt EXCEPT !.balances = r.balances]]
    ELSE LET r == poe_dispatch(rt.claims, caller, call)
         IN [res |-> r.res, rt |-> [rt EXCEPT !.claims = r.claims]]

\* One pass of the loop of execute_block: the caller's nonce is incremented,
\* then the call is dispatched; a dispatch error is logged and the loop goes on.
\* st = [rt, log, panic]; log holds the result of every dispatch so far.
RECURSIVE apply_extrinsics(_, _)
apply_extrinsics(st, extrinsics) ==
    IF extrinsics = <<>> \/ st.panic
    THEN st
    ELSE LET e == Head(extrinsics)
             n == inc_nonce(st.rt.system, e.caller)
         IN IF n.panic
            THEN [st EXCEPT !.panic = TRUE]
            ELSE LET d == runtime_dispatch([st.rt EXCEPT !.system = n.system],
                                           e.caller, e.call)
                 IN apply_extrinsics([rt |-> d.rt, log |-> Append(st.log, d.res),
                                      panic |-> FALSE],
                                     Tail(extrinsics))

BlockNumberMismatch == "block number does not match what is expected"

\* Runtime::execute_block
execute_block(rt, block) ==
    IF block.header.block_number # get_block_number(rt.system) + 1
    THEN [res |-> BlockNumberMismatch, rt |-> rt, log |-> <<>>]
    ELSE LET b == inc_block_number(rt.system)
         IN IF b.panic
            THEN [res |-> "panic", rt |-> rt, log |-> <<>>]
            ELSE LET st == apply_extrinsics([rt |-> [rt EXCEPT !.system = b.system],
                                             log |-> <<>>, panic |-> FALSE],
                                            block.extrinsics)
                 IN [res |-> IF st.panic THEN "panic" ELSE "Ok",
                     rt |-> st.rt, log |-> st.log]

\* ------------------------------------------------------------------ inputs

Amounts == 0..MaxBalance

\* The amounts the transfers of a block move.
BlockAmounts == {1}

Calls ==
    {TransferCall(to, amount) : to \in BlockAccounts, amount \in BlockAmounts}
    \cup {CreateClaimCall(c) : c \in BlockContents}
    \cup {RevokeClaimCall(c) : c \in BlockContents}

Extrinsics == {[caller |-> a, call |-> c] : a \in BlockAccounts, c \in Calls}

RECURSIVE SeqsUpTo(_, _)
SeqsUpTo(S, n) ==
    IF n = 0 THEN {<<>>}
    ELSE LET shorter == SeqsUpTo(S, n - 1)
         IN shorter \cup {Append(s, x) : s \in shorter, x \in S}

Blocks ==
    {[header |-> [block_number |-> h], extrinsics |-> es] :
        h \in BlockNumberT, es \in SeqsUpTo(Extrinsics, MaxExtrinsics)}

\* ----------------------------------------------------------------- actions

\* The runtime as one value, and the variables as that value.
Runtime ==
    [system |-> [block_number |-> block_number, nonce |-> nonce],
     balances |-> balances, claims |-> claims]

BecomesRuntime(rt) ==
    /\ block_number' = rt.system.block_number
    /\ nonce' = rt.system.nonce
    /\ balances' = rt.balances
    /\ claims' = rt.claims

\* No call is under way: the runtime is single-threaded and every operation
\* runs to completion before the next one starts.  A panic ends the process.
Idle == [op |-> "none", res |-> "Ok"]
Running == last = Idle

\* Runtime::new
runtime_new == [system |-> system_new, balances |-> balances_new, claims |-> poe_new]

\* The variables hold the runtime rt.
IsRuntime(rt) ==
    /\ block_number = rt.system.block_number
    /\ nonce = rt.system.nonce
    /\ balances = rt.balances
    /\ claims = rt.claims

\* The Config types at the widths the exploration uses, and at the widths
\* that hold the run of main.
ScaledConfig ==
    [max_balance |-> MaxBalance, max_block_number |-> MaxBlockNumber,
     max_nonce |-> MaxNonce]
MainConfig ==
    [max_balance |-> MainMaxBalance, max_block_number |-> MaxBlockNumber,
     max_nonce |-> MainMaxNonce]

\* Runtime::new, and the build profile chosen.
Init ==
    /\ IsRuntime(runtime_new)
    /\ overflow_checks \in BOOLEAN
    /\ config = ScaledConfig
    /\ last = Idle
    /\ accepted_blocks = 0

\* system.inc_block_number()
IncBlockNumber ==
    /\ Running
    /\ LET r == inc_block_number(Runtime.system)
       IN /\ block_number' = r.system.block_number
          /\ nonce' = r.system.nonce
          /\ last' = [op |-> "inc_block_number",
                      res |-> IF r.panic THEN "panic" ELSE "Ok"]
    /\ UNCHANGED <<balances, claims, overflow_checks, config, accepted_blocks>>

\* system.inc_nonce(who)
IncNonce(who) ==
    /\ Running
    /\ LET r == inc_nonce(Runtime.system, who)
       IN /\ block_number' = r.system.block_number
          /\ nonce' = r.system.nonce
          /\ last' = [op |-> "inc_nonce", res |-> IF r.panic THEN "panic" ELSE "Ok",
                      who |-> who]
    /\ UNCHANGED <<balances, claims, overflow_checks, config, accepted_blocks>>

\* runtime.balances.set_balance(&who, amount)
SetBalance(who, amount) ==
    /\ Running
    /\ balances' = set_balance(balances, who, amount)
    /\ last' = [op |-> "set_balance", res |-> "Ok", who |-> who, amount |-> amount]
    /\ UNCHANGED <<block_number, nonce, claims, overflow_checks, config, accepted_blocks>>

\* balances.transfer(caller, to, amount)
Transfer(caller, to, amount) ==
    /\ Running
    /\ LET r == transfer(balances, caller, to, amount)
       IN /\ balances' = r.balances
          /\ last' = [op |-> "transfer", res |-> r.res, caller |-> caller,
                      to |-> to, amount |-> amount]
    /\ UNCHANGED <<block_number, nonce, claims, overflow_checks, config, accepted_blocks>>

\* pallet.create_claim(caller, claim)
CreateClaim(caller, claim) ==
    /\ Running
    /\ LET r == create_claim(claims, caller, claim)
       IN /\ claims' = r.claims
          /\ last' = [op |-> "create_claim", res |-> r.res, caller |-> caller,
                      claim |-> claim]
    /\ UNCHANGED <<block_number, nonce, balances, overflow_checks, config, accepted_blocks>>

\* pallet.revoke_claim(caller, claim)
RevokeClaim(caller, claim) ==
    /\ Running
    /\ LET r == revoke_claim(claims, caller, claim)
       IN /\ claims' = r.claims
          /\ last' = [op |-> "revoke_claim", res |-> r.res, caller |-> caller,
                      claim |-> claim]
    /\ UNCHANGED <<block_number, nonce, balances, overflow_checks, config, accepted_blocks>>

\* runtime.dispatch(caller, call)
Dispatch(caller, call) ==
    /\ Running
    /\ LET r == runtime_dispatch(Runtime, caller, call)
       IN /\ BecomesRuntime(r.rt)
          /\ last' = [op |-> "dispatch", res |-> r.res, caller |-> caller,
                      call |-> call]
    /\ UNCHANGED <<overflow_checks, config, accepted_blocks>>

\* runtime.execute_block(block)
ExecuteBlock(block) ==
    /\ Running
    /\ \E r \in {execute_block(Runtime, block)} :
          /\ BecomesRuntime(r.rt)
          /\ last' = [op |-> "execute_block", res |-> r.res, block |-> block,
                      log |-> r.log]
          /\ accepted_blocks' = IF r.res = BlockNumberMismatch
                                THEN accepted_blocks ELSE accepted_blocks + 1
    /\ UNCHANGED <<overflow_checks, config>>

\* The caller has the operation's result (main's expect, a test's assert_eq):
\* the call is over.  After a panic there is no caller left.
Return ==
    /\ last # Idle
    /\ last.res # "panic"
    /\ last' = Idle
    /\ UNCHANGED <<block_number, nonce, balances, claims, overflow_checks, config, accepted_blocks>>

DoSetBalance ==
    Running /\ \E who \in Accounts, amount \in BalanceT : SetBalance(who, amount)
DoSetBlockBalance ==
    Running /\ \E who \in BlockAccounts, amount \in BalanceT : SetBalance(who, amount)
DoTransfer ==
    Running /\ \E caller \in Accounts, to \in Accounts, amount \in Amounts :
                   Transfer(caller, to, amount)
DoCreateClaim ==
    Running /\ \E caller \in Accounts, claim \in Contents : CreateClaim(caller, claim)
DoRevokeClaim ==
    Running /\ \E caller \in Accounts, claim \in Contents : RevokeClaim(caller, claim)
DoExecuteBlock ==
    Running /\ \E block \in Blocks : ExecuteBlock(block)

DoIncBlockNumber == Running /\ IncBlockNumber
DoIncNonce == Running /\ \E who \in Accounts : IncNonce(who)

\* The calls handed to dispatch directly.
DispatchCalls ==
    {TransferCall(to, amount) : to \in Accounts, amount \in Amounts}
    \cup {CreateClaimCall(c) : c \in Contents}
    \cup {RevokeClaimCall(c) : c \in Contents}

DoDispatch ==
    Running /\ \E caller \in Accounts, call \in DispatchCalls : Dispatch(caller, call)

\* The runtime as main drives it: balances are set, blocks are executed.
Next == DoSetBlockBalance \/ DoExecuteBlock \/ Return

Spec == Init /\ [][Next]_vars

\* The balances pallet on its own.
NextBalances == DoSetBalance \/ DoTransfer \/ Return

SpecBalances == Init /\ [][NextBalances]_vars

\* The proof-of-existence pallet on its own.
NextPoe == DoCreateClaim \/ DoRevokeClaim \/ Return

SpecPoe == Init /\ [][NextPoe]_vars

\* The system pallet on its own.
NextSystem == DoIncBlockNumber \/ DoIncNonce \/ Return

SpecSystem == Init /\ [][NextSystem]_vars

\* The dispatch of single calls on a runtime whose balances have been set.
NextDispatch == DoSetBalance \/ DoDispatch \/ Return

SpecDispatch == Init /\ [][NextDispatch]_vars

\* The run of main: a runtime at the widths of MainConfig, the balance of
\* alice set in block 0, then blocks.
InitMain ==
    /\ IsRuntime(runtime_new)
    /\ overflow_checks \in BOOLEAN
    /\ config = MainConfig
    /\ last = Idle
    /\ accepted_blocks = 0

\* The two blocks of main.
block_1 ==
    [header |-> [block_number |-> 1],
     extrinsics |-> << [caller |-> "alice", call |-> TransferCall("bob", 30)],
                       [caller |-> "alice", call |-> CreateClaimCall("x")] >>]
block_2 ==
    [header |-> [block_number |-> 2],
     extrinsics |-> << [caller |-> "alice", call |-> TransferCall("charlie", 20)] >>]

\* A transfer from alice to bob and a transfer of the same amount from bob to
\* charlie, in the two orders.
ChainAmounts == {20, 30}
ChainExtrinsics ==
    UNION {LET ab == [caller |-> "alice", call |-> TransferCall("bob", n)]
               bc == [caller |-> "bob", call |-> TransferCall("charlie", n)]
           IN {<<ab, bc>>, <<bc, ab>>} : n \in ChainAmounts}

\* The blocks the run of main is given: the extrinsic lists of block_1 and
\* block_2 and the two-transfer chains, under each header.
MainBlocks ==
    {[header |-> [block_number |-> h], extrinsics |-> es] :
        h \in 1..MaxBlockNumber,
        es \in {block_1.extrinsics, block_2.extrinsics} \cup ChainExtrinsics}

DoMainSetBalance == Running /\ block_number = 0 /\ SetBalance("alice", 100)
DoMainExecuteBlock == Running /\ \E block \in MainBlocks : ExecuteBlock(block)

NextMain == DoMainSetBalance \/ DoMainExecuteBlock \/ Return

SpecMain == InitMain /\ [][NextMain]_vars

\* The stores hold values of their types.
TypeOK ==
    /\ block_number \in 0..config.max_block_number
    /\ DOMAIN nonce \subseteq Accounts
    /\ \A a \in DOMAIN nonce : nonce[a] \in 0..config.max_nonce
    /\ DOMAIN balances \subseteq Accounts
    /\ \A a \in DOMAIN balances : balances[a] \in 0..config.max_balance
    /\ DOMAIN claims \subseteq Contents
    /\ \A c \in DOMAIN claims : claims[c] \in Accounts
    /\ overflow_checks \in BOOLEAN

\* ------------------------------------------------------------------ claims

\* The step is a call of `op`: it starts from an idle runtime and leaves the
\* call, its arguments and its result in last.
Called(op) == last = Idle /\ last'.op = op

\* C1: a block whose header.block_number is not the current block number + 1
\* is refused with an error and nothing changes: not the block number, no
\* nonce, no balance, no claim.
C1_RejectedBlockNoEffect ==
    [][(Called("execute_block")
            /\ last'.block.header.block_number # block_number + 1) =>
          /\ last'.res = BlockNumberMismatch
          /\ UNCHANGED <<block_number, nonce, balances, claims>>]_vars

\* A block with extrinsics and a wrong number has been refused.
C1_Witness ==
    /\ last.op = "execute_block"
    /\ last.block.header.block_number # block_number + 1
    /\ Len(last.block.extrinsics) = MaxExtrinsics
    /\ last.res = BlockNumberMismatch

\* C2: execute_block returns Ok if and only if the block's number is the
\* current block number + 1, whatever its extrinsics do in dispatch.
C2_OkIffExpectedNumber ==
    [][Called("execute_block") =>
          ((last'.res = "Ok") <=>
               (last'.block.header.block_number = block_number + 1))]_vars

\* The balances and claims stores after the extrinsics that succeed, and only
\* those, are applied in order.
RECURSIVE ApplySucceeding(_, _)
ApplySucceeding(stores, extrinsics) ==
    IF extrinsics = <<>>
    THEN stores
    ELSE LET e == Head(extrinsics)
             t == transfer(stores.balances, e.caller, e.call.to, e.call.amount)
             c == create_claim(stores.claims, e.caller, e.call.claim)
             r == revoke_claim(stores.claims, e.caller, e.call.claim)
             after ==
                 CASE e.call.name = "transfer" ->
                          IF t.res = "Ok" THEN [stores EXCEPT !.balances = t.balances]
                          ELSE stores
                   [] e.call.name = "create_claim" ->
                          IF c.res = "Ok" THEN [stores EXCEPT !.claims = c.claims]
                          ELSE stores
                   [] e.call.name = "revoke_claim" ->
                          IF r.res = "Ok" THEN [stores EXCEPT !.claims = r.claims]
                          ELSE stores
         IN ApplySucceeding(after, Tail(extrinsics))

\* C3: in an accepted block every extrinsic is attempted, before and after
\* one whose dispatch fails, and the stores end as the extrinsics that
\* succeed, applied in order, leave them.
C3_FailureIsolation ==
    [][(Called("execute_block")
            /\ last'.block.header.block_number = block_number + 1) =>
          /\ Len(last'.log) = Len(last'.block.extrinsics)
          /\ [balances |-> balances', claims |-> claims']
                 = ApplySucceeding([balances |-> balances, claims |-> claims],
                                   last'.block.extrinsics)]_vars

\* The nonce of an account: zero when none is stored.
NonceOf(m, who) == IF who \in DOMAIN m THEN m[who] ELSE 0

\* How many of the extrinsics have caller who.
RECURSIVE CountCaller(_, _)
CountCaller(extrinsics, who) ==
    IF extrinsics = <<>> THEN 0
    ELSE (IF Head(extrinsics).caller = who THEN 1 ELSE 0)
             + CountCaller(Tail(extrinsics), who)

\* C4: an accepted block raises the nonce of every account by the number of
\* the block's extrinsics that account called, failed ones included; no
\* stored nonce counts as zero.
C4_NonceBookkeeping ==
    [][(Called("execute_block") /\ last'.res = "Ok") =>
          \A a \in Accounts :
              NonceOf(nonce', a)
                  = NonceOf(nonce, a) + CountCaller(last'.block.extrinsics, a)]_vars

\* C5: an accepted block advances the block number by exactly one whatever
\* its extrinsics do, a refused block by zero; the block number is the number
\* of blocks accepted so far and never decreases.
C5_BlockNumberAccounting ==
    /\ [](block_number = accepted_blocks)
    /\ [][/\ block_number' >= block_number
          /\ Called("execute_block") =>
                block_number' = block_number
                    + (IF last'.block.header.block_number = block_number + 1
                       THEN 1 ELSE 0)]_vars

\* A second block has been accepted although one of its extrinsics failed.
C5_Witness ==
    /\ last.op = "execute_block"
    /\ last.res = "Ok"
    /\ block_number = 2
    /\ \E i \in DOMAIN last.log : last.log[i] # "Ok"

\* C6: if transfer(caller, to, amount) succeeds, balance(caller) + balance(to)
\* is the same after the transfer as before it, for every caller, recipient
\* and amount.
C6_TransferPreservesSum ==
    [][(Called("transfer") /\ last'.res = "Ok") =>
          balance(balances', last'.caller) + balance(balances', last'.to)
              = balance(balances, last'.caller) + balance(balances, last'.to)]_vars

\* C7: whenever amount > balance(caller), transfer returns "Not enough funds"
\* and the balances store is unchanged, for every recipient.
C7_InsufficientFunds ==
    [][(Called("transfer") /\ last'.amount > balance(balances, last'.caller)) =>
          (last'.res = "Not enough funds" /\ balances' = balances)]_vars

\* A transfer of more than the caller has, to another account, has failed.
C7_Witness ==
    /\ last.op = "transfer"
    /\ last.amount > balance(balances, last.caller)
    /\ last.to # last.caller
    /\ balance(balances, last.caller) > 0
    /\ last.res = "Not enough funds"

\* C8 as stated: whenever balance(to) + amount exceeds the largest Balance,
\* transfer fails with "Overflow" and the balances store is unchanged, for
\* every caller and every caller balance.
C8_OverflowAsStated ==
    [][(Called("transfer") /\ balance(balances, last'.to) + last'.amount > config.max_balance) =>
          (last'.res = "Overflow" /\ balances' = balances)]_vars

\* C8 as amended: whenever balance(to) + amount exceeds the largest Balance,
\* transfer fails and the balances store is unchanged; the error is "Overflow"
\* when amount <= balance(caller) and "Not enough funds" when
\* amount > balance(caller).
C8_OverflowAmended ==
    [][(Called("transfer") /\ balance(balances, last'.to) + last'.amount > config.max_balance) =>
          /\ balances' = balances
          /\ last'.res = IF last'.amount <= balance(balances, last'.caller)
                         THEN "Overflow" ELSE "Not enough funds"]_vars

\* A transfer the caller can afford has failed on the recipient's overflow.
C8_Witness ==
    /\ last.op = "transfer"
    /\ balance(balances, last.to) + last.amount > config.max_balance
    /\ last.amount <= balance(balances, last.caller)
    /\ last.to # last.caller
    /\ last.res = "Overflow"

\* C9: create_claim(caller, c) succeeds exactly when c is unclaimed, and then
\* caller owns c; when c is claimed it fails with the already-claimed error,
\* whoever calls, and the claims store is unchanged.
C9_CreateClaim ==
    [][Called("create_claim") =>
          LET c == last'.claim
              a == last'.caller
          IN /\ (last'.res = "Ok") <=> (c \notin DOMAIN claims)
             /\ c \notin DOMAIN claims =>
                   /\ c \in DOMAIN claims' /\ claims'[c] = a
                   /\ \A d \in Contents \ {c} :
                         /\ (d \in DOMAIN claims') <=> (d \in DOMAIN claims)
                         /\ d \in DOMAIN claims => claims'[d] = claims[d]
             /\ c \in DOMAIN claims =>
                   /\ last'.res = "this content is already claimed"
                   /\ claims' = claims]_vars

\* A create_claim of a content another account owns has failed.
C9_Witness ==
    /\ last.op = "create_claim"
    /\ last.res = "this content is already claimed"
    /\ last.claim \in DOMAIN claims
    /\ claims[last.claim] # last.caller

\* C10: revoke_claim(caller, c) fails with "Claim not existing" when c is
\* unclaimed and with the not-owner error when another account owns c, the
\* claims store unchanged in both cases; it succeeds only when caller owns c,
\* and then c is unclaimed and every other claim is unchanged.
C10_RevokeClaim ==
    [][Called("revoke_claim") =>
          LET c == last'.claim
              a == last'.caller
          IN /\ c \notin DOMAIN claims =>
                   (last'.res = "Claim not existing" /\ claims' = claims)
             /\ (c \in DOMAIN claims /\ claims[c] # a) =>
                   /\ last'.res = "Cannot revoke claim that is not owned by caller"
                   /\ claims' = claims
             /\ last'.res = "Ok" =>
                   /\ c \in DOMAIN claims /\ claims[c] = a
                   /\ c \notin DOMAIN claims'
                   /\ \A d \in Contents \ {c} :
                         /\ (d \in DOMAIN claims') <=> (d \in DOMAIN claims)
                         /\ d \in DOMAIN claims => claims'[d] = claims[d]]_vars

\* The owner has revoked a claim while another claim stays recorded.
C10_Witness ==
    /\ last.op = "revoke_claim"
    /\ last.res = "Ok"
    /\ last.claim \notin DOMAIN claims
    /\ DOMAIN claims # {}


\* C11: a fresh balances store reports zero for every account, and an
\* account's balance leaves zero only when the account is the target of a
\* set_balance or the recipient of a successful transfer; set_balance(who,
\* amount) makes balance(who) equal amount and changes no other balance.
C11_ZeroUntilCredited ==
    /\ \A a \in Accounts : balance(balances, a) = 0
    /\ [][/\ \A a \in Accounts :
                (balance(balances, a) = 0 /\ balance(balances', a) # 0) =>
                    \/ Called("set_balance") /\ last'.who = a
                    \/ Called("transfer") /\ last'.to = a /\ last'.res = "Ok"
          /\ Called("set_balance") =>
                /\ last'.res = "Ok"
                /\ balance(balances', last'.who) = last'.amount
                /\ \A a \in Accounts \ {last'.who} :
                      balance(balances', a) = balance(balances, a)]_vars

\* set_balance has set the balance of one account while a second account
\* holds another balance and a third has never been credited.
C11_Witness ==
    /\ last.op = "set_balance"
    /\ balance(balances, last.who) = last.amount
    /\ last.amount = 1
    /\ \E a \in Accounts \ {last.who} : balance(balances, a) = 2
    /\ \E a \in Accounts \ {last.who} : a \notin DOMAIN balances


\* C12: the run of main.  From a fresh runtime in which alice holds 100 and
\* bob nothing, block_1 (alice transfers 30 to bob, alice claims x) succeeds
\* and leaves alice 70, bob 30, x owned by alice, block number 1 and the nonce
\* of alice 2; from that state block_2 (alice transfers 20 to charlie)
\* succeeds and leaves alice 50, charlie 20 and block number 2.
MainGenesis ==
    /\ IsRuntime([runtime_new EXCEPT !.balances = set_balance(balances_new, "alice", 100)])
    /\ balance(balances, "bob") = 0
MainAfterBlock1 ==
    /\ block_number = 1
    /\ nonce = Insert(EmptyMap, "alice", 2)
    /\ balance(balances, "alice") = 70
    /\ balance(balances, "bob") = 30
    /\ balance(balances, "charlie") = 0
    /\ claims = Insert(EmptyMap, "x", "alice")
    /\ get_claim(claims, "x") = "alice"
MainAfterBlock2 ==
    /\ block_number = 2
    /\ balance(balances, "alice") = 50
    /\ balance(balances, "charlie") = 20
C12_MainScenario ==
    [][/\ (Called("execute_block") /\ MainGenesis /\ last'.block = block_1) =>
              (last'.res = "Ok" /\ last'.log = <<"Ok", "Ok">> /\ MainAfterBlock1')
       /\ (Called("execute_block") /\ MainAfterBlock1 /\ last'.block = block_2) =>
              (last'.res = "Ok" /\ last'.log = <<"Ok">> /\ MainAfterBlock2')]_vars

\* main has run to its end: block_2 was executed on the state block_1 left.
C12_Witness ==
    /\ last.op = "execute_block"
    /\ last.block = block_2
    /\ last.res = "Ok"
    /\ MainAfterBlock2
    /\ balance(balances, "bob") = 30
    /\ nonce = Insert(EmptyMap, "alice", 3)
    /\ claims = Insert(EmptyMap, "x", "alice")


\* C13: a block that carries the expected block number and no extrinsic is
\* accepted: execute_block returns Ok, the block number grows by one, and the
\* nonces, the balances and the claims are unchanged.
C13_EmptyBlock ==
    [][(/\ Called("execute_block")
        /\ last'.block.header.block_number = block_number + 1
        /\ last'.block.extrinsics = <<>>) =>
            /\ last'.res = "Ok"
            /\ block_number' = block_number + 1
            /\ nonce' = nonce
            /\ balances' = balances
            /\ claims' = claims]_vars

\* An empty block has been accepted by a runtime that holds nonces, balances
\* and a claim.
C13_Witness ==
    /\ last.op = "execute_block"
    /\ last.block.extrinsics = <<>>
    /\ last.res = "Ok"
    /\ block_number = 2
    /\ nonce # EmptyMap
    /\ \E a \in Accounts : balance(balances, a) > 0
    /\ claims # EmptyMap


\* C14: no operation terminates abruptly: inc_block_number and inc_nonce
\* return to their caller whatever the block number and the nonce are, the
\* maximum of the type included.
C14_NoAbruptTermination == last.res # "panic"


\* C15: the runtime new() builds has block number zero, no stored nonce,
\* balance zero for every account and no claim; the only block it accepts is
\* the block whose header carries block number 1.
FreshRuntime == IsRuntime(runtime_new)
C15_FreshRuntime ==
    /\ get_block_number(Runtime.system) = 0
    /\ DOMAIN nonce = {}
    /\ \A a \in Accounts : NonceOf(nonce, a) = 0 /\ balance(balances, a) = 0
    /\ \A c \in Contents : get_claim(claims, c) = "none"
    /\ FreshRuntime
    /\ [][(Called("execute_block") /\ FreshRuntime) =>
             /\ last'.block.header.block_number = 1 => last'.res = "Ok"
             /\ last'.block.header.block_number # 1 =>
                   (last'.res = BlockNumberMismatch /\ FreshRuntime')]_vars

\* A fresh runtime has accepted block 1.
C15_Witness ==
    /\ last.op = "execute_block"
    /\ last.block.header.block_number = 1
    /\ last.res = "Ok"
    /\ block_number = 1
    /\ accepted_blocks = 1
    /\ balances = EmptyMap
    /\ claims # EmptyMap


\* C16: the extrinsics of an accepted block are applied in sequence order,
\* each on the stores the earlier ones left: the second result of a
\* two-extrinsic block is the result of its call on the stores after the
\* first call.  With balance(bob) = 0 and alice holding n, the block [alice
\* transfers n to bob; bob transfers n to charlie] succeeds in both transfers
\* and ends with balance(charlie) grown by n and balance(bob) = 0; the block
\* [bob transfers n to charlie; alice transfers n to bob] has bob's transfer
\* fail with "Not enough funds" and ends with balance(bob) = n.
AliceToBob(n) == [caller |-> "alice", call |-> TransferCall("bob", n)]
BobToCharlie(n) == [caller |-> "bob", call |-> TransferCall("charlie", n)]
C17_DispatchFrame ==
    [][Called("dispatch") =>
          /\ last'.call.pallet = "balances" => claims' = claims
          /\ last'.call.pallet = "proof_of_existence" => balances' = balances
          /\ block_number' = block_number
          /\ nonce' = nonce
          /\ last'.res # "Ok" => (balances' = balances /\ claims' = claims)]_vars

\* A transfer has been dispatched and refused for overflow while the caller
\* holds the amount and a claim is recorded.
C17_Witness ==
    /\ last.op = "dispatch"
    /\ last.call.name = "transfer"
    /\ last.res = "Overflow"
    /\ last.call.amount > 0
    /\ balance(balances, last.caller) >= last.call.amount
    /\ claims # EmptyMap


\* C18: the acting identity is the caller of the extrinsic.  Over an
\* execute_block, an account's balance decreases only if the block holds a
\* successful transfer extrinsic whose caller is that account; a claim is
\* removed or changes owner only if the block holds a successful revoke_claim
\* extrinsic for it whose caller is its owner; and the owner recorded for a
\* new claim is the caller of a successful create_claim extrinsic for it.
Succeeded(i, caller, name) ==
    /\ i <= Len(last'.log)
    /\ last'.log[i] = "Ok"
    /\ last'.block.extrinsics[i].caller = caller
    /\ last'.block.extrinsics[i].call.name = name
C18_CallerActs ==
    [][Called("execute_block") =>
          LET n == Len(last'.block.extrinsics)
          IN /\ \A a \in Accounts :
                   balance(balances', a) < balance(balances, a) =>
                       \E i \in 1..n : Succeeded(i, a, "transfer")
             /\ \A c \in DOMAIN claims :
                   (c \notin DOMAIN claims' \/ claims'[c] # claims[c]) =>
                       \E i \in 1..n :
                           /\ Succeeded(i, claims[c], "revoke_claim")
                           /\ last'.block.extrinsics[i].call.claim = c
             /\ \A c \in DOMAIN claims' :
                   (c \notin DOMAIN claims \/ claims[c] # claims'[c]) =>
                       \E i \in 1..n :
                           /\ Succeeded(i, claims'[c], "create_claim")
                           /\ last'.block.extrinsics[i].call.claim = c]_vars

\* A block has passed a claim from its owner, who revoked it, to another
\* caller, who then claimed it.
C18_Witness ==
    /\ last.op = "execute_block"
    /\ last.log = <<"Ok", "Ok">>
    /\ last.block.extrinsics[1].call.name = "revoke_claim"
    /\ last.block.extrinsics[2].call.name = "create_claim"
    /\ last.block.extrinsics[1].caller # last.block.extrinsics[2].caller
    /\ get_claim(claims, "x") = last.block.extrinsics[2].caller


\* C19: execute_block leaves the sum of the balances of all accounts
\* unchanged, whatever the state and the block.
RECURSIVE SumOver(_, _)
SumOver(bal, S) ==
    IF S = {} THEN 0
    ELSE LET a == CHOOSE x \in S : TRUE
         IN balance(bal, a) + SumOver(bal, S \ {a})
TotalSupply(bal) == SumOver(bal, Accounts)
C19_SupplyConserved ==
    [][Called("execute_block") => TotalSupply(balances') = TotalSupply(balances)]_vars


\* C20: for content c that is unclaimed, create_claim(a, c) succeeds, a
\* following revoke_claim(a, c) succeeds and gives back exactly the claims
\* store from before the create, and after that create_claim(b, c) succeeds
\* for every account b and records b as the owner of c.
C20_RoundTrip ==
    [][(Called("create_claim") /\ last'.claim \notin DOMAIN claims) =>
          LET a == last'.caller
              c == last'.claim
              revoked == revoke_claim(claims', a, c)
          IN /\ last'.res = "Ok"
             /\ revoked.res = "Ok"
             /\ revoked.claims = claims
             /\ \A b \in Accounts :
                   LET again == create_claim(revoked.claims, b, c)
                   IN /\ again.res = "Ok"
                      /\ get_claim(again.claims, c) = b
                      /\ \A d \in Contents \ {c} :
                            get_claim(again.claims, d) = get_claim(claims, d)]_vars

\* An account has revoked the claim on x that it had created: the store holds
\* its claim on y alone.
C20_Witness ==
    /\ last.op = "revoke_claim"
    /\ last.res = "Ok"
    /\ last.claim = "x"
    /\ claims = Insert(EmptyMap, "y", last.caller)

====
